---- MODULE Spec2Model ----
(***************************************************************************)
(* Model of the MCP server of src/mcp.py: the per-connection frame loop    *)
(* (handle_client), the dispatcher (MCPServer.handle_request) and the      *)
(* handlers it calls.                                                      *)
(*                                                                         *)
(* Representation.  A Python dict is a function whose DOMAIN is the set of *)
(* keys present.  A Python str that the code takes apart (paths, URIs,     *)
(* f-string results) is a sequence of tokens; other strings are TLA+       *)
(* strings.  A JSON value found under "params" or "arguments" is a record  *)
(* [type, items]: type "dict" with its items, or "null" / "list" for the   *)
(* JSON values that are not objects.                                       *)
(***************************************************************************)
EXTENDS Integers, Sequences, FiniteSets, TLC

VARIABLES
  pc,          \* where each connection's handle_client stands
  mcp_server,  \* the MCPServer object of each connection
  request,     \* the frame the loop holds
  env_,        \* what the outside world did to the external call of this frame
  response,    \* what handle_request returned for it
  sent,        \* the line written to the connection in this iteration
  ran,         \* the handlers and executors that ran for this frame
  before,      \* the MCPServer object as it was when the frame was read
  written,     \* the frame numbers answered so far, in the order written
  nread,       \* frames read so far
  inflight,    \* frames read whose iteration has not finished
  initOk,      \* an initialize request has succeeded on this connection
  closes,      \* calls of writer.close()
  peer,        \* the other end of the connection: "open" or "gone"
  terminal     \* the terminal client of src/mcp_terminal.py and its connection

vars == <<pc, mcp_server, request, env_, response, sent, ran, before, written,
          nread, inflight, initOk, closes, peer, terminal>>

(***************************************************************************)
(* Bounds                                                                  *)
(***************************************************************************)
\* frames read on one connection before the peer stops sending
MaxFrames == 3

\* the connections of the model; Spec runs the first one alone
Conns == {"A", "B"}

(***************************************************************************)
(* Python values                                                           *)
(***************************************************************************)
None == "None"

EmptyDict == [k \in {} |-> ""]

\* dict.get(key, default)
Get(d, key, default) == IF key \in DOMAIN d THEN d[key] ELSE default

JDict(items) == [type |-> "dict", items |-> items]

JNull == [type |-> "null", items |-> EmptyDict]

JList == [type |-> "list", items |-> EmptyDict]

\* stands for a key left out of a JSON object when the inputs are enumerated
JAbsent == [type |-> "absent", items |-> EmptyDict]

\* only a dict has .get; on None or a list the call raises AttributeError
HasGet(v) == v.type = "dict"

\* str(x) inside an f-string, as one token
Str(x) == x

(***************************************************************************)
(* Constants of src/mcp.py                                                 *)
(***************************************************************************)
MCP_VERSION == "2024-11-05"

\* os.getcwd() at construction
Cwd == <<"/", "cwd">>

\* MCPServer._setup_tools: name and inputSchema.required, in dict order;
\* datetime has no "required" key
_setup_tools ==
  << [name |-> "read_file",        properties |-> {"path"},                      required |-> {"path"}],
     [name |-> "write_file",       properties |-> {"path", "content", "append"}, required |-> {"path", "content"}],
     [name |-> "list_files",       properties |-> {"path"},                      required |-> {}],
     [name |-> "create_directory", properties |-> {"path"},                      required |-> {"path"}],
     [name |-> "delete_path",      properties |-> {"path"},                      required |-> {"path"}],
     [name |-> "run_command",      properties |-> {"command", "cwd"},            required |-> {"command"}],
     [name |-> "search_files",     properties |-> {"pattern", "path"},           required |-> {"pattern"}],
     [name |-> "file_info",        properties |-> {"path"},                      required |-> {"path"}],
     [name |-> "calculator",       properties |-> {"expression"},                required |-> {"expression"}],
     [name |-> "terminal_execute", properties |-> {"command"},                   required |-> {"command"}],
     [name |-> "datetime",         properties |-> {},                            required |-> {}] >>

\* MCPServer._setup_prompts: name, arguments and which of them are required
_setup_prompts ==
  << [name |-> "code_review",      arguments |-> <<"language", "code">>,              required |-> {"language", "code"}],
     [name |-> "code_explanation", arguments |-> <<"language", "code">>,              required |-> {"language", "code"}],
     [name |-> "create_test",      arguments |-> <<"language", "code", "framework">>, required |-> {"language", "code"}] >>

ToolNames == {_setup_tools[i].name : i \in 1..Len(_setup_tools)}

PromptNames == {_setup_prompts[i].name : i \in 1..Len(_setup_prompts)}

ToolDescriptor(name) == CHOOSE t \in {_setup_tools[i] : i \in 1..Len(_setup_tools)} : t.name = name

PromptDescriptor(name) == CHOOSE p \in {_setup_prompts[i] : i \in 1..Len(_setup_prompts)} : p.name = name

\* MCPServer.__init__
NewServer == [initialized |-> FALSE, workspace_root |-> Cwd]

(***************************************************************************)
(* Responses                                                               *)
(***************************************************************************)
NoBody == [tag |-> "", text |-> <<>>]

\* the empty string that handle_request returns when nothing is to be sent
NoResponse == [id |-> None, kind |-> "", code |-> 0, body |-> NoBody]

\* uri.replace("file://", "")
ReplaceFileScheme(uri) == SelectSeq(uri, LAMBDA t : t # "file://")

\* the ids are compared by truth value instead of against None, so an id of 0
\* is taken for no id at the place the response is built
_create_response_FalsyId(request_id, result) ==
  IF request_id = None THEN NoResponse
  ELSE [id |-> IF request_id = "0" THEN None ELSE request_id, kind |-> "result", code |-> 0, body |-> result]

\* MCPServer._create_response
_create_response(request_id, result) ==
  IF request_id = None THEN NoResponse
  ELSE [id |-> request_id, kind |-> "result", code |-> 0, body |-> result]

\* the error response is built without the test for a missing id
_create_error_response_NoNoneCheck(request_id, code, message) ==
  [id |-> request_id, kind |-> "error", code |-> code,
   body |-> [tag |-> "error", text |-> message]]

\* MCPServer._create_error_response
_create_error_response(request_id, code, message) ==
  IF request_id = None THEN NoResponse
  ELSE [id |-> request_id, kind |-> "error", code |-> code,
        body |-> [tag |-> "error", text |-> message]]

(***************************************************************************)
(* Handler outcomes: the value returned or the exception raised, the       *)
(* server object as the handler leaves it, the handlers and executors that *)
(* ran, and whether the handler is stuck in a call that never returns.     *)
(***************************************************************************)
Return(self, value, who) ==
  [exc |-> "", value |-> value, server |-> self, ran |-> who, hangs |-> FALSE]

Raise(self, exc, who) ==
  [exc |-> exc, value |-> NoBody, server |-> self, ran |-> who, hangs |-> FALSE]

Hang(self, who) ==
  [exc |-> "", value |-> NoBody, server |-> self, ran |-> who, hangs |-> TRUE]

Content(text) == [tag |-> "content", text |-> text]

\* MCPServer._resolve_path
_resolve_path(self, path) ==
  IF Len(path) > 0 /\ path[1] = "/" THEN path
  ELSE IF self.workspace_root \o path = <<>> THEN <<".">>
  ELSE self.workspace_root \o path

(***************************************************************************)
(* Tool bodies.  env is what the outside world does to the one external    *)
(* call the body makes: "ok", "fail" (I/O failure, non-zero exit,          *)
(* evaluation error), "missing" (the path does not exist, nothing found),  *)
(* "timeout" (subprocess.TimeoutExpired), "oserror" (the process could not *)
(* be started), "hang" (the call never returns).                           *)
(***************************************************************************)
\* opening the workspace directory itself always fails (IsADirectoryError)
OpenFails(self, path, env) == env # "ok" \/ path = _resolve_path(self, <<>>)

\* MCPServer._tool_read_file
_tool_read_file(self, arguments, env) ==
  IF ~HasGet(arguments) THEN Raise(self, "AttributeError", {"_tool_read_file"})
  ELSE LET path == _resolve_path(self, Get(arguments.items, "path", <<>>))
       IN  IF OpenFails(self, path, env)
           THEN Return(self, Content(<<"Error leyendo archivo ">> \o path \o <<": ", "str(e)">>), {"_tool_read_file", "open"})
           ELSE Return(self, Content(<<"Contenido de ">> \o path \o <<":\n\n", "content">>), {"_tool_read_file", "open"})

\* MCPServer._tool_write_file
_tool_write_file(self, arguments, env) ==
  IF ~HasGet(arguments) THEN Raise(self, "AttributeError", {"_tool_write_file"})
  ELSE LET path   == _resolve_path(self, Get(arguments.items, "path", <<>>))
           append == Get(arguments.items, "append", <<>>) # <<>>
           action == IF append THEN "Anadido a" ELSE "Escrito en"
       IN  IF OpenFails(self, path, env)
           THEN Return(self, Content(<<"Error escribiendo archivo ">> \o path \o <<": ", "str(e)">>), {"_tool_write_file", "open"})
           ELSE Return(self, Content(<<action, " archivo: ">> \o path), {"_tool_write_file", "open"})

\* MCPServer._tool_list_files
_tool_list_files(self, arguments, env) ==
  IF ~HasGet(arguments) THEN Raise(self, "AttributeError", {"_tool_list_files"})
  ELSE LET path        == Get(arguments.items, "path", <<>>)
           target_path == IF path # <<>> THEN _resolve_path(self, path) ELSE self.workspace_root
       IN  CASE env = "missing" -> Return(self, Content(<<"La ruta no existe: ">> \o target_path), {"_tool_list_files", "os.listdir"})
             [] env = "ok"      -> Return(self, Content(<<"Contenido de ">> \o target_path \o <<":\n\n", "items_text">>), {"_tool_list_files", "os.listdir"})
             [] OTHER           -> Return(self, Content(<<"Error listando directorio ">> \o target_path \o <<": ", "str(e)">>), {"_tool_list_files", "os.listdir"})

\* MCPServer._tool_create_directory
_tool_create_directory(self, arguments, env) ==
  IF ~HasGet(arguments) THEN Raise(self, "AttributeError", {"_tool_create_directory"})
  ELSE LET path == _resolve_path(self, Get(arguments.items, "path", <<>>))
       IN  IF env = "ok"
           THEN Return(self, Content(<<"Directorio creado: ">> \o path), {"_tool_create_directory", "os.makedirs"})
           ELSE Return(self, Content(<<"Error creando directorio ">> \o path \o <<": ", "str(e)">>), {"_tool_create_directory", "os.makedirs"})

\* MCPServer._tool_delete_path
_tool_delete_path(self, arguments, env) ==
  IF ~HasGet(arguments) THEN Raise(self, "AttributeError", {"_tool_delete_path"})
  ELSE LET path   == _resolve_path(self, Get(arguments.items, "path", <<>>))
           action == IF path = _resolve_path(self, <<>>) THEN "Directorio eliminado" ELSE "Archivo eliminado"
       IN  CASE env = "missing" -> Return(self, Content(<<"La ruta no existe: ">> \o path), {"_tool_delete_path", "os.remove"})
             [] env = "ok"      -> Return(self, Content(<<action, ": ">> \o path), {"_tool_delete_path", "os.remove"})
             [] OTHER           -> Return(self, Content(<<"Error eliminando ">> \o path \o <<": ", "str(e)">>), {"_tool_delete_path", "os.remove"})

\* the body catches subprocess.TimeoutExpired only: a process that cannot be
\* started raises out of the tool
_tool_run_command_NoCatchAll(self, arguments, env) ==
  IF ~HasGet(arguments) THEN Raise(self, "AttributeError", {"_tool_run_command"})
  ELSE LET command     == Get(arguments.items, "command", <<>>)
           cwd         == Get(arguments.items, "cwd", <<>>)
           working_dir == IF cwd # <<>> THEN _resolve_path(self, cwd) ELSE self.workspace_root
           who         == {"_tool_run_command", "subprocess.run"}
       IN  CASE env = "ok"      -> Return(self, Content(<<"Comando ejecutado en ">> \o working_dir \o <<":\n">> \o command
                                                        \o <<"\n\nResultado:\n", "returncode: 0">>), who)
             [] env = "fail"    -> Return(self, Content(<<"Comando ejecutado en ">> \o working_dir \o <<":\n">> \o command
                                                        \o <<"\n\nResultado:\n", "returncode: 1">>), who)
             [] env = "timeout" -> Return(self, Content(<<"El comando tardo demasiado en ejecutarse: ">> \o command), who)
             [] OTHER           -> Raise(self, "OSError", who)

\* MCPServer._tool_run_command: subprocess.run(..., timeout=30)
_tool_run_command(self, arguments, env) ==
  IF ~HasGet(arguments) THEN Raise(self, "AttributeError", {"_tool_run_command"})
  ELSE LET command     == Get(arguments.items, "command", <<>>)
           cwd         == Get(arguments.items, "cwd", <<>>)
           working_dir == IF cwd # <<>> THEN _resolve_path(self, cwd) ELSE self.workspace_root
           who         == {"_tool_run_command", "subprocess.run"}
       IN  CASE env = "ok"      -> Return(self, Content(<<"Comando ejecutado en ">> \o working_dir \o <<":\n">> \o command
                                                        \o <<"\n\nResultado:\n", "returncode: 0">>), who)
             [] env = "fail"    -> Return(self, Content(<<"Comando ejecutado en ">> \o working_dir \o <<":\n">> \o command
                                                        \o <<"\n\nResultado:\n", "returncode: 1">>), who)
             [] env = "timeout" -> Return(self, Content(<<"El comando tardo demasiado en ejecutarse: ">> \o command), who)
             [] OTHER           -> Return(self, Content(<<"Error ejecutando comando: ", "str(e)">>), who)

\* MCPServer._tool_search_files
_tool_search_files(self, arguments, env) ==
  IF ~HasGet(arguments) THEN Raise(self, "AttributeError", {"_tool_search_files"})
  ELSE LET pattern     == Get(arguments.items, "pattern", <<>>)
           path        == Get(arguments.items, "path", <<>>)
           search_path == IF path # <<>> THEN _resolve_path(self, path) ELSE self.workspace_root
       IN  CASE env = "ok"      -> Return(self, Content(<<"Archivos encontrados con patron '">> \o pattern \o <<"' en ">>
                                                        \o search_path \o <<":\n\n", "files_text">>), {"_tool_search_files", "os.walk"})
             [] env = "missing" -> Return(self, Content(<<"No se encontraron archivos con el patron '">> \o pattern
                                                        \o <<"' en ">> \o search_path), {"_tool_search_files", "os.walk"})
             [] OTHER           -> Return(self, Content(<<"Error buscando archivos: ", "str(e)">>), {"_tool_search_files", "os.walk"})

\* MCPServer._tool_file_info
_tool_file_info(self, arguments, env) ==
  IF ~HasGet(arguments) THEN Raise(self, "AttributeError", {"_tool_file_info"})
  ELSE LET path == _resolve_path(self, Get(arguments.items, "path", <<>>))
       IN  CASE env = "missing" -> Return(self, Content(<<"La ruta no existe: ">> \o path), {"_tool_file_info", "os.stat"})
             [] env = "ok"      -> Return(self, Content(<<"Informacion del archivo:\n", "file_info">>), {"_tool_file_info", "os.stat"})
             [] OTHER           -> Return(self, Content(<<"Error obteniendo informacion del archivo: ", "str(e)">>), {"_tool_file_info", "os.stat"})

\* MCPServer._tool_calculator: the subscript arguments["expression"] and the
\* eval are both inside the try
_tool_calculator(self, arguments, env) ==
  IF ~(HasGet(arguments) /\ "expression" \in DOMAIN arguments.items)
  THEN Return(self, Content(<<"Error de calculo: ", "str(e)">>), {"_tool_calculator"})
  ELSE IF env = "ok"
  THEN Return(self, Content(<<"Resultado: ", "result">>), {"_tool_calculator", "eval"})
  ELSE Return(self, Content(<<"Error de calculo: ", "str(e)">>), {"_tool_calculator", "eval"})

\* MCPServer._tool_datetime
_tool_datetime(self, arguments, env) ==
  Return(self, Content(<<"Fecha y hora actual: ", "isoformat">>), {"_tool_datetime", "datetime.now"})

\* the external outcomes each tool body can meet
ToolEnv(tool_name) ==
  CASE tool_name \in {"read_file", "write_file", "create_directory", "calculator"} -> {"ok", "fail"}
    [] tool_name \in {"list_files", "delete_path", "file_info"}                    -> {"ok", "fail", "missing"}
    [] tool_name = "search_files"                                                   -> {"ok", "missing"}
    [] tool_name = "run_command"                                                    -> {"ok", "fail", "timeout", "oserror"}
    [] OTHER                                                                        -> {"ok"}

\* the name is looked up in a table of tool bodies and the miss is not caught
ToolNotFound_Raises(self, tool_name) == Raise(self, "KeyError", {})

\* the last return of handle_tools_call: no branch matched the name
ToolNotFound(self, tool_name) ==
  Return(self, Content(<<"Herramienta no encontrada: ", Str(tool_name)>>), {})

\* MCPServer.handle_tools_call
handle_tools_call(self, params, env) ==
  IF ~HasGet(params) THEN Raise(self, "AttributeError", {"handle_tools_call"})
  ELSE LET tool_name == Get(params.items, "name", None)
           arguments == Get(params.items, "arguments", JDict(EmptyDict))
           r == CASE tool_name = "read_file"        -> _tool_read_file(self, arguments, env)
                  [] tool_name = "write_file"       -> _tool_write_file(self, arguments, env)
                  [] tool_name = "list_files"       -> _tool_list_files(self, arguments, env)
                  [] tool_name = "create_directory" -> _tool_create_directory(self, arguments, env)
                  [] tool_name = "delete_path"      -> _tool_delete_path(self, arguments, env)
                  [] tool_name = "run_command"      -> _tool_run_command(self, arguments, env)
                  [] tool_name = "search_files"     -> _tool_search_files(self, arguments, env)
                  [] tool_name = "file_info"        -> _tool_file_info(self, arguments, env)
                  [] tool_name = "calculator"       -> _tool_calculator(self, arguments, env)
                  [] tool_name = "datetime"         -> _tool_datetime(self, arguments, env)
                  [] OTHER -> ToolNotFound(self, tool_name)
       IN  [r EXCEPT !.ran = @ \cup {"handle_tools_call"}]

\* the listing is built from the names handle_tools_call dispatches, which
\* leaves terminal_execute out
handle_tools_list_Dispatchable(self) ==
  Return(self, [tag |-> "tools",
                text |-> SelectSeq([i \in 1..Len(_setup_tools) |-> _setup_tools[i].name],
                                   LAMBDA n : n # "terminal_execute")], {"handle_tools_list"})

\* MCPServer.handle_tools_list
handle_tools_list(self) ==
  Return(self, [tag |-> "tools", text |-> [i \in 1..Len(_setup_tools) |-> _setup_tools[i].name]], {"handle_tools_list"})

\* MCPServer.handle_prompts_list
handle_prompts_list(self) ==
  Return(self, [tag |-> "prompts", text |-> [i \in 1..Len(_setup_prompts) |-> _setup_prompts[i].name]], {"handle_prompts_list"})

\* the JSON literal true as an argument value; json.loads makes it True
JTrue == <<"json:true">>

\* {value} inside an f-string: format(value, ""), which for a str is the str
\* itself and for True is the text "True"
Format(value) == IF value = JTrue THEN <<"True">> ELSE value

\* create_test is rendered with the default framework whatever was supplied
handle_prompts_get_DefaultFramework(self, params) ==
  IF ~HasGet(params) THEN Raise(self, "AttributeError", {"handle_prompts_get"})
  ELSE LET prompt_name == Get(params.items, "name", None)
           arguments   == Get(params.items, "arguments", JDict(EmptyDict))
           language    == Get(arguments.items, "language", <<>>)
           code        == Get(arguments.items, "code", <<>>)
           framework   == <<"estandar">>
           who         == {"handle_prompts_get"}
       IN  IF prompt_name \in {"code_review", "code_explanation", "create_test"} /\ ~HasGet(arguments)
           THEN Raise(self, "AttributeError", who)
           ELSE CASE prompt_name = "code_review" ->
                       Return(self, [tag |-> "Revision de codigo con enfoque en calidad",
                                     text |-> <<"Revisa este codigo ">> \o Format(language) \o <<":\n\n">> \o Format(code)
                                              \o <<"\n\nProporciona comentarios sobre calidad, posibles errores y optimizaciones.">>], who)
                  [] prompt_name = "code_explanation" ->
                       Return(self, [tag |-> "Explica el funcionamiento de un codigo",
                                     text |-> <<"Explica como funciona este codigo ">> \o Format(language) \o <<":\n\n">> \o Format(code)
                                              \o <<"\n\nDescribe el proposito, las funciones principales y cualquier detalle importante.">>], who)
                  [] prompt_name = "create_test" ->
                       Return(self, [tag |-> "Genera tests para un codigo dado",
                                     text |-> <<"Genera tests usando ">> \o Format(framework) \o <<" para este codigo ">> \o Format(language)
                                              \o <<":\n\n">> \o Format(code) \o <<"\n\nIncluye casos de prueba para diferentes escenarios.">>], who)
                  [] OTHER ->
                       Return(self, [tag |-> "Prompt no encontrado",
                                     text |-> <<"El prompt '", Str(prompt_name), "' no existe.">>], who)

\* MCPServer.handle_prompts_get
handle_prompts_get(self, params) ==
  IF ~HasGet(params) THEN Raise(self, "AttributeError", {"handle_prompts_get"})
  ELSE LET prompt_name == Get(params.items, "name", None)
           arguments   == Get(params.items, "arguments", JDict(EmptyDict))
           language    == Get(arguments.items, "language", <<>>)
           code        == Get(arguments.items, "code", <<>>)
           framework   == Get(arguments.items, "framework", <<"estandar">>)
           who         == {"handle_prompts_get"}
       IN  IF prompt_name \in {"code_review", "code_explanation", "create_test"} /\ ~HasGet(arguments)
           THEN Raise(self, "AttributeError", who)
           ELSE CASE prompt_name = "code_review" ->
                       Return(self, [tag |-> "Revision de codigo con enfoque en calidad",
                                     text |-> <<"Revisa este codigo ">> \o Format(language) \o <<":\n\n">> \o Format(code)
                                              \o <<"\n\nProporciona comentarios sobre calidad, posibles errores y optimizaciones.">>], who)
                  [] prompt_name = "code_explanation" ->
                       Return(self, [tag |-> "Explica el funcionamiento de un codigo",
                                     text |-> <<"Explica como funciona este codigo ">> \o Format(language) \o <<":\n\n">> \o Format(code)
                                              \o <<"\n\nDescribe el proposito, las funciones principales y cualquier detalle importante.">>], who)
                  [] prompt_name = "create_test" ->
                       Return(self, [tag |-> "Genera tests para un codigo dado",
                                     text |-> <<"Genera tests usando ">> \o Format(framework) \o <<" para este codigo ">> \o Format(language)
                                              \o <<":\n\n">> \o Format(code) \o <<"\n\nIncluye casos de prueba para diferentes escenarios.">>], who)
                  [] OTHER ->
                       Return(self, [tag |-> "Prompt no encontrado",
                                     text |-> <<"El prompt '", Str(prompt_name), "' no existe.">>], who)

\* MCPServer.handle_terminal_execute: subprocess.run(...) without a timeout
handle_terminal_execute(self, params, env) ==
  IF ~HasGet(params) THEN Raise(self, "AttributeError", {"handle_terminal_execute"})
  ELSE LET command == Get(params.items, "command", <<>>)
           who     == {"handle_terminal_execute", "subprocess.run"}
       IN  CASE command = <<>>  -> Return(self, Content(<<"Comando no proporcionado">>), {"handle_terminal_execute"})
             [] env = "hang"    -> Hang(self, who)
             [] env = "ok"      -> Return(self, Content(<<"Comando ejecutado:\n">> \o command
                                                        \o <<"\n\nSalida:\n", "stdout", "\nErrores:\n", "stderr", "\nCodigo de retorno: ", "0">>), who)
             [] env = "fail"    -> Return(self, Content(<<"Comando ejecutado:\n">> \o command
                                                        \o <<"\n\nSalida:\n", "stdout", "\nErrores:\n", "stderr", "\nCodigo de retorno: ", "1">>), who)
             [] OTHER           -> Return(self, Content(<<"Error al ejecutar el comando: ", "str(e)">>), who)

\* initialize starts the handshake over: the flag is cleared until the next
\* initialized arrives
handle_initialize_Resets(self, params) ==
  IF ~HasGet(params) THEN Raise(self, "AttributeError", {"handle_initialize"})
  ELSE IF Get(params.items, "protocolVersion", None) # MCP_VERSION
       THEN Raise(self, "Exception", {"handle_initialize"})
  ELSE LET workspace_dirs == Get(params.items, "workspaceFolders", <<>>)
           root == IF workspace_dirs # <<>>
                   THEN ReplaceFileScheme(Get(workspace_dirs[1], "uri", <<>>))
                   ELSE self.workspace_root
       IN  Return([self EXCEPT !.workspace_root = root, !.initialized = FALSE],
                  [tag |-> "initialize", text |-> <<MCP_VERSION>>], {"handle_initialize"})

\* the workspace root is taken from the request before the version is checked
handle_initialize_RootFirst(self, params) ==
  IF ~HasGet(params) THEN Raise(self, "AttributeError", {"handle_initialize"})
  ELSE LET workspace_dirs == Get(params.items, "workspaceFolders", <<>>)
           root == IF workspace_dirs # <<>>
                   THEN ReplaceFileScheme(Get(workspace_dirs[1], "uri", <<>>))
                   ELSE self.workspace_root
           moved == [self EXCEPT !.workspace_root = root]
       IN  IF Get(params.items, "protocolVersion", None) # MCP_VERSION
           THEN Raise(moved, "Exception", {"handle_initialize"})
           ELSE Return(moved, [tag |-> "initialize", text |-> <<MCP_VERSION>>], {"handle_initialize"})

\* a session that is already initialized refuses to be initialized again
handle_initialize_OnceOnly(self, params) ==
  IF ~HasGet(params) THEN Raise(self, "AttributeError", {"handle_initialize"})
  ELSE IF Get(params.items, "protocolVersion", None) # MCP_VERSION \/ self.initialized
       THEN Raise(self, "Exception", {"handle_initialize"})
  ELSE LET workspace_dirs == Get(params.items, "workspaceFolders", <<>>)
           root == IF workspace_dirs # <<>>
                   THEN ReplaceFileScheme(Get(workspace_dirs[1], "uri", <<>>))
                   ELSE self.workspace_root
       IN  Return([self EXCEPT !.workspace_root = root],
                  [tag |-> "initialize", text |-> <<MCP_VERSION>>], {"handle_initialize"})

\* MCPServer.handle_initialize
handle_initialize(self, params) ==
  IF ~HasGet(params) THEN Raise(self, "AttributeError", {"handle_initialize"})
  ELSE IF Get(params.items, "protocolVersion", None) # MCP_VERSION
       THEN Raise(self, "Exception", {"handle_initialize"})
  ELSE LET workspace_dirs == Get(params.items, "workspaceFolders", <<>>)
           root == IF workspace_dirs # <<>>
                   THEN ReplaceFileScheme(Get(workspace_dirs[1], "uri", <<>>))
                   ELSE self.workspace_root
       IN  Return([self EXCEPT !.workspace_root = root],
                  [tag |-> "initialize", text |-> <<MCP_VERSION>>], {"handle_initialize"})

\* MCPServer.handle_initialized
handle_initialized(self, params) ==
  Return([self EXCEPT !.initialized = TRUE], [tag |-> "null", text |-> <<>>], {"handle_initialized"})

(***************************************************************************)
(* Frames.  A frame is one line read from the connection: its class, and   *)
(* for a JSON object the object itself, with the id still as JSON text.    *)
(***************************************************************************)
NoFrame == [kind |-> "none", obj |-> EmptyDict]

\* json.loads on a scalar of the frame: the JSON literal null becomes None
FromJson(lit) == IF lit = "null" THEN None ELSE lit

\* json.dumps of a scalar
ToJson(v) == IF v = None THEN "null" ELSE v

\* json.loads(request_data): the exception it raises, or the parsed value
json_loads(request_data) ==
  CASE request_data.kind = "badjson"   -> [exc |-> "JSONDecodeError", isdict |-> FALSE, value |-> EmptyDict]
    [] request_data.kind = "nonobject" -> [exc |-> "", isdict |-> FALSE, value |-> EmptyDict]
    [] OTHER -> [exc |-> "", isdict |-> TRUE,
                 value |-> [k \in DOMAIN request_data.obj |->
                              IF k = "id" THEN FromJson(request_data.obj[k]) ELSE request_data.obj[k]]]

\* the guard covers the tool methods only
NotInitialized_ToolsOnly(self, method) ==
  ~self.initialized /\ method \in {"tools/list", "tools/call"}

\* the guard of line 217: the server is not initialized and the method is
\* not the one that initializes it
NotInitialized(self, method) == ~self.initialized /\ method # "initialized"

\* the message leaves the method name out
MethodNotFound_NoName(method) == <<"Metodo no encontrado">>

\* the message of the -32601 error
MethodNotFound(method) == <<"Metodo no encontrado: ", Str(method)>>

\* the part of handle_request inside the try, once the frame is parsed:
\* the response it returns, or the exception that reaches an except clause
Dispatch(self, method, params, request_id, env) ==
  LET Reply(h) == [h EXCEPT !.value = _create_response(request_id, h.value)]
      Fail(code, message) ==
        [exc |-> "", value |-> _create_error_response(request_id, code, message),
         server |-> self, ran |-> {}, hangs |-> FALSE]
  IN  IF method = "initialize" THEN Reply(handle_initialize(self, params))
      ELSE IF NotInitialized(self, method)
           THEN Fail(-32002, <<"Servidor no inicializado">>)
      ELSE CASE method = "initialized" ->
                  LET h == handle_initialized(self, params)
                  IN  IF request_id = None THEN [h EXCEPT !.value = NoResponse] ELSE Reply(h)
             [] method = "tools/list"       -> Reply(handle_tools_list(self))
             [] method = "tools/call"       -> Reply(handle_tools_call(self, params, env))
             [] method = "prompts/list"     -> Reply(handle_prompts_list(self))
             [] method = "prompts/get"      -> Reply(handle_prompts_get(self, params))
             [] method = "terminal/execute" -> Reply(handle_terminal_execute(self, params, env))
             [] OTHER -> Fail(-32601, MethodNotFound(method))

\* a frame without an id is dropped before it is dispatched
handle_request_DropsNotifications(self, request_data, env) ==
  LET parsed == json_loads(request_data)
      Out(exc, caught, resp, server, who, hangs) ==
        [exc |-> exc, caught |-> caught, response |-> resp, server |-> server,
         ran |-> who, hangs |-> hangs]
  IN  IF parsed.exc = "JSONDecodeError"
      THEN Out("", "JSONDecodeError", _create_error_response(None, -32700, <<"Error de analisis JSON">>),
               self, {}, FALSE)
      ELSE IF ~parsed.isdict
      THEN Out("UnboundLocalError", "AttributeError", NoResponse, self, {}, FALSE)
      ELSE LET req        == parsed.value
               method     == Get(req, "method", "")
               params     == Get(req, "params", JDict(EmptyDict))
               request_id == Get(req, "id", None)
               d          == Dispatch(self, method, params, request_id, env)
           IN  IF request_id = None /\ method \notin {"initialize", "initialized"}
               THEN Out("", "", NoResponse, self, {}, FALSE)
               ELSE IF d.exc = ""
               THEN Out("", "", IF d.hangs THEN NoResponse ELSE d.value, d.server, d.ran, d.hangs)
               ELSE Out("", d.exc,
                        _create_error_response(request_id, -32603, <<"Error interno: ", d.exc>>),
                        d.server, d.ran, FALSE)

\* MCPServer.handle_request.  exc is the exception that leaves the method,
\* caught the one that an except clause turned into a response.
handle_request(self, request_data, env) ==
  LET parsed == json_loads(request_data)
      Out(exc, caught, resp, server, who, hangs) ==
        [exc |-> exc, caught |-> caught, response |-> resp, server |-> server,
         ran |-> who, hangs |-> hangs]
  IN  IF parsed.exc = "JSONDecodeError"
      THEN Out("", "JSONDecodeError", _create_error_response(None, -32700, <<"Error de analisis JSON">>),
               self, {}, FALSE)
      ELSE IF ~parsed.isdict
      \* request.get raises AttributeError; the except clause then reads
      \* request_id, which was never assigned
      THEN Out("UnboundLocalError", "AttributeError", NoResponse, self, {}, FALSE)
      ELSE LET req        == parsed.value
               method     == Get(req, "method", "")
               params     == Get(req, "params", JDict(EmptyDict))
               request_id == Get(req, "id", None)
               d          == Dispatch(self, method, params, request_id, env)
           IN  IF d.exc = ""
               THEN Out("", "", IF d.hangs THEN NoResponse ELSE d.value, d.server, d.ran, d.hangs)
               ELSE Out("", d.exc,
                        _create_error_response(request_id, -32603, <<"Error interno: ", d.exc>>),
                        d.server, d.ran, FALSE)

(***************************************************************************)
(* The frames a peer sends                                                 *)
(***************************************************************************)
Absent == "<absent>"

\* the one value each argument key carries
ArgValue(k) ==
  CASE k = "path" -> <<"f.txt">>   [] k = "content" -> <<"hello">>   [] k = "append" -> <<"true">>
    [] k = "command" -> <<"ls">>   [] k = "cwd" -> <<"sub">>         [] k = "pattern" -> <<".py">>
    [] k = "expression" -> <<"2+2">> [] k = "language" -> <<"python">> [] k = "code" -> <<"x=1">>
    [] k = "framework" -> <<"pytest">>

Args(keys) == JDict([k \in keys |-> ArgValue(k)])

\* a JSON object with the given keys left out where the value is Absent
Obj(method, id, params) ==
  [k \in (IF method = Absent THEN {} ELSE {"method"}) \cup (IF id = Absent THEN {} ELSE {"id"})
         \cup (IF params = JAbsent THEN {} ELSE {"params"}) |->
     CASE k = "method" -> method [] k = "id" -> id [] OTHER -> params]

Ids == {Absent, "null", "0", "1"}

\* all arguments, and all but one of them
ArgChoices(all) == {Args(all)} \cup {Args(all \ {a}) : a \in all}

InitializeParams ==
  {JNull} \cup
  { JDict([k \in {"protocolVersion"} |-> v]) : v \in {MCP_VERSION, "1.0"} } \cup
  { JDict([k \in {"protocolVersion", "workspaceFolders"} |->
             IF k = "protocolVersion" THEN v ELSE <<[uri |-> <<"file://", "/", "ws1">>, name |-> <<"W">>]>>]) :
      v \in {MCP_VERSION, "1.0"} } \cup
  { JDict([k \in {"workspaceFolders"} |-> <<[uri |-> <<"file://", "/", "ws1">>, name |-> <<"W">>]>>]) }

ToolsCallParams ==
  {JList} \cup
  { JDict([k \in {"name"} |-> n]) : n \in {"datetime", "calculator"} } \cup
  { JDict([k \in {"arguments"} |-> Args({"path"})]) } \cup
  { JDict([k \in {"name", "arguments"} |-> IF k = "name" THEN "no_such_tool" ELSE Args({"path"})]) } \cup
  { JDict([k \in {"name", "arguments"} |-> IF k = "name" THEN n ELSE JList]) : n \in {"read_file", "calculator"} } \cup
  UNION { { JDict([k \in {"name", "arguments"} |-> IF k = "name" THEN _setup_tools[i].name ELSE a]) :
              a \in ArgChoices(_setup_tools[i].properties) } : i \in 1..Len(_setup_tools) }

PromptsGetParams ==
  {JNull} \cup
  { JDict([k \in {"name"} |-> "code_review"]) } \cup
  { JDict([k \in {"name", "arguments"} |-> IF k = "name" THEN n ELSE JList]) : n \in {"code_review", "no_such_prompt"} } \cup
  { JDict([k \in {"name", "arguments"} |->
             IF k = "name" THEN "code_review"
             ELSE JDict([a \in {"language", "code"} |-> IF a = "language" THEN JTrue ELSE ArgValue(a)])]) } \cup
  UNION { { JDict([k \in {"name", "arguments"} |-> IF k = "name" THEN _setup_prompts[i].name ELSE a]) :
              a \in ArgChoices({_setup_prompts[i].arguments[j] : j \in 1..Len(_setup_prompts[i].arguments)}) } :
          i \in 1..Len(_setup_prompts) }

TerminalParams ==
  {JNull, JDict(EmptyDict)} \cup { JDict([k \in {"command"} |-> c]) : c \in {<<>>, <<"ls">>} }

ParamsOf(method) ==
  CASE method = "initialize"       -> {JAbsent} \cup InitializeParams
    [] method = "tools/call"       -> {JAbsent} \cup ToolsCallParams
    [] method = "prompts/get"      -> {JAbsent} \cup PromptsGetParams
    [] method = "terminal/execute" -> {JAbsent} \cup TerminalParams
    [] OTHER                       -> {JAbsent}

Methods == {"initialize", "initialized", "tools/list", "tools/call", "prompts/list",
            "prompts/get", "terminal/execute", "no/such/method", Absent}

ObjectFrames ==
  UNION { { [kind |-> "object", obj |-> Obj(m, i, p)] : i \in Ids, p \in ParamsOf(m) } : m \in Methods }

Frames ==
  ObjectFrames \cup
  { [kind |-> k, obj |-> EmptyDict] : k \in {"eof", "undecodable", "blank", "badjson", "nonobject"} }

\* what the outside world can do to the external call a frame leads to
EnvFor(frame) ==
  LET method == Get(frame.obj, "method", "")
      params == Get(frame.obj, "params", JDict(EmptyDict))
  IN  CASE method = "terminal/execute" -> {"ok", "fail", "oserror", "hang"}
        [] method = "tools/call"       -> ToolEnv(Get(params.items, "name", None))
        [] OTHER                       -> {"ok"}

(***************************************************************************)
(* handle_client, one connection each                                      *)
(***************************************************************************)
\* the terminal client before it is started: the module globals of
\* src/mcp_terminal.py, the two directions of its connection, and what its
\* last readline gave it
NoTerminal ==
  [pc              |-> "start",
   mcp_initialized |-> FALSE,
   current_model   |-> "cloud",
   toServer        |-> <<>>,    \* frames sent and not yet read by the server
   fromServer      |-> <<>>,    \* lines written by the server and not yet read
   partial         |-> FALSE,   \* the first of these lines has been read in part
   nsent           |-> 0,       \* frames sent so far
   commands        |-> 0,       \* commands typed so far
   awaiting        |-> 0,       \* the number of the terminal/execute frame sent last
   lastLine        |-> 0]       \* the frame whose response the last readline returned

Init ==
  /\ pc         = [c \in Conns |-> "idle"]
  /\ mcp_server = [c \in Conns |-> NewServer]
  /\ request    = [c \in Conns |-> NoFrame]
  /\ env_       = [c \in Conns |-> "ok"]
  /\ response   = [c \in Conns |-> NoResponse]
  /\ sent       = [c \in Conns |-> NoResponse]
  /\ ran        = [c \in Conns |-> {}]
  /\ before     = [c \in Conns |-> NewServer]
  /\ written    = [c \in Conns |-> <<>>]
  /\ nread      = [c \in Conns |-> 0]
  /\ inflight   = [c \in Conns |-> 0]
  /\ initOk     = [c \in Conns |-> FALSE]
  /\ closes     = [c \in Conns |-> 0]
  /\ peer       = [c \in Conns |-> "open"]
  /\ terminal   = NoTerminal

\* the writer is closed where the loop is left and again in the finally clause
Close_Twice(c) ==
  /\ pc'       = [pc EXCEPT ![c] = "closed"]
  /\ closes'   = [closes EXCEPT ![c] = @ + 2]
  /\ inflight' = [inflight EXCEPT ![c] = 0]

\* the finally clause: writer.close()
Close(c) ==
  /\ pc'       = [pc EXCEPT ![c] = "closed"]
  /\ closes'   = [closes EXCEPT ![c] = @ + 1]
  /\ inflight' = [inflight EXCEPT ![c] = 0]

\* a connection is accepted: handle_client starts with a fresh MCPServer
Accept(c) ==
  /\ pc[c] = "idle"
  /\ pc' = [pc EXCEPT ![c] = "readline"]
  /\ mcp_server' = [mcp_server EXCEPT ![c] = NewServer]
  /\ before' = [before EXCEPT ![c] = NewServer]
  /\ UNCHANGED <<request, env_, response, sent, ran, written, nread, inflight, initOk, closes, peer>>

\* the next frame is read as soon as handle_request has returned, before the
\* response is written
AtReadLine_Pipelined(c) == pc[c] \in {"readline", "write"}

\* the loop is at the top of its body, about to read
AtReadLine(c) == pc[c] = "readline"

\* the test for an empty line is missing: a blank line goes to handle_request
ReadFrame_BlankHandled(c, frame) ==
  /\ CASE frame.kind \in {"eof", "undecodable"} ->
            /\ Close(c)
            /\ nread' = [nread EXCEPT ![c] = IF frame.kind = "eof" THEN @ ELSE @ + 1]
            /\ UNCHANGED <<request, before>>
       [] OTHER ->
            /\ nread' = [nread EXCEPT ![c] = @ + 1]
            /\ request' = [request EXCEPT ![c] = IF frame.kind = "blank" THEN [frame EXCEPT !.kind = "badjson"] ELSE frame]
            /\ before' = [before EXCEPT ![c] = mcp_server[c]]
            /\ inflight' = [inflight EXCEPT ![c] = @ + 1]
            /\ pc' = [pc EXCEPT ![c] = "handle"]
            /\ UNCHANGED closes
  /\ UNCHANGED <<mcp_server, env_, response, sent, ran, written, initOk, peer>>

\* what the loop does with the line it has read: break on end of input, leave
\* through the except clause when decode fails, continue on a line that strip
\* leaves empty (request then holds the empty string), else go on to
\* handle_request
ReadFrame(c, frame) ==
  /\ CASE frame.kind \in {"eof", "undecodable"} ->
            /\ Close(c)
            /\ nread' = [nread EXCEPT ![c] = IF frame.kind = "eof" THEN @ ELSE @ + 1]
            /\ UNCHANGED <<request, before>>
       [] frame.kind = "blank" ->
            /\ nread' = [nread EXCEPT ![c] = @ + 1]
            /\ request' = [request EXCEPT ![c] = frame]
            /\ UNCHANGED <<pc, closes, inflight, before>>
       [] OTHER ->
            /\ nread' = [nread EXCEPT ![c] = @ + 1]
            /\ request' = [request EXCEPT ![c] = frame]
            /\ before' = [before EXCEPT ![c] = mcp_server[c]]
            /\ inflight' = [inflight EXCEPT ![c] = @ + 1]
            /\ pc' = [pc EXCEPT ![c] = "handle"]
            /\ UNCHANGED closes
  /\ UNCHANGED <<mcp_server, env_, response, sent, ran, written, initOk, peer>>

\* the peer sends at most MaxFrames lines before it ends its input
MayRead(c, frame) == frame.kind # "eof" => nread[c] < MaxFrames

\* data = await reader.readline(), decode, strip
ReadLine(c) ==
  /\ AtReadLine(c)
  /\ \E frame \in Frames : MayRead(c, frame) /\ ReadFrame(c, frame)

\* one MCPServer object for the whole process, shared by every connection
Store_Shared(c, server) == [d \in Conns |-> server]

\* the MCPServer object is the local mcp_server of the connection's handle_client
Store(c, server) == [mcp_server EXCEPT ![c] = server]

\* response = await mcp_server.handle_request(request)
HandleRequest(c) ==
  /\ pc[c] = "handle"
  /\ \E env \in EnvFor(request[c]) :
       LET r == handle_request(mcp_server[c], request[c], env)
       IN  /\ env_' = [env_ EXCEPT ![c] = env]
           /\ ran' = [ran EXCEPT ![c] = r.ran]
           /\ mcp_server' = Store(c, r.server)
           /\ initOk' = [initOk EXCEPT ![c] =
                           @ \/ ("handle_initialize" \in r.ran /\ r.exc = "" /\ r.caught = "")]
           /\ CASE r.hangs    -> /\ pc' = [pc EXCEPT ![c] = "blocked"]
                                 /\ UNCHANGED <<response, closes, inflight>>
                [] r.exc # "" -> /\ Close(c)
                                 /\ UNCHANGED response
                [] OTHER      -> /\ pc' = [pc EXCEPT ![c] = "write"]
                                 /\ response' = [response EXCEPT ![c] = r.response]
                                 /\ UNCHANGED <<closes, inflight>>
  /\ UNCHANGED <<request, sent, before, written, nread, peer>>

\* if response: writer.write(response.encode() + b'\n'); await writer.drain()
\* When the peer is gone the line does not reach it, and drain either raises
\* ConnectionResetError, which leaves the loop, or returns.
WriteResponse(c) ==
  /\ pc[c] = "write"
  /\ \/ /\ IF response[c] # NoResponse /\ peer[c] = "open"
           THEN /\ sent' = [sent EXCEPT ![c] = [response[c] EXCEPT !.id = ToJson(@)]]
                /\ written' = [written EXCEPT ![c] = Append(@, nread[c])]
           ELSE UNCHANGED <<sent, written>>
        /\ pc' = [pc EXCEPT ![c] = "drained"]
        /\ UNCHANGED <<inflight, closes>>
     \/ /\ response[c] # NoResponse /\ peer[c] = "gone"
        /\ Close(c)
        /\ UNCHANGED <<sent, written>>
  /\ UNCHANGED <<mcp_server, request, env_, response, ran, before, nread, initOk, peer>>

\* the loop leaves after it has written an error response
Continue_CloseOnError(c) ==
  /\ pc[c] = "drained"
  /\ IF sent[c].kind = "error"
     THEN /\ Close(c)
          /\ UNCHANGED <<request, env_, response, sent, ran, before>>
     ELSE /\ pc' = [pc EXCEPT ![c] = "readline"]
          /\ request' = [request EXCEPT ![c] = NoFrame]
          /\ env_' = [env_ EXCEPT ![c] = "ok"]
          /\ response' = [response EXCEPT ![c] = NoResponse]
          /\ sent' = [sent EXCEPT ![c] = NoResponse]
          /\ ran' = [ran EXCEPT ![c] = {}]
          /\ before' = [before EXCEPT ![c] = mcp_server[c]]
          /\ inflight' = [inflight EXCEPT ![c] = @ - 1]
          /\ UNCHANGED closes
  /\ UNCHANGED <<mcp_server, written, nread, initOk, peer>>

\* the end of the loop body: back to while True
Continue(c) ==
  /\ pc[c] = "drained"
  /\ pc' = [pc EXCEPT ![c] = "readline"]
  /\ request' = [request EXCEPT ![c] = NoFrame]
  /\ env_' = [env_ EXCEPT ![c] = "ok"]
  /\ response' = [response EXCEPT ![c] = NoResponse]
  /\ sent' = [sent EXCEPT ![c] = NoResponse]
  /\ ran' = [ran EXCEPT ![c] = {}]
  /\ before' = [before EXCEPT ![c] = mcp_server[c]]
  /\ inflight' = [inflight EXCEPT ![c] = @ - 1]
  /\ UNCHANGED <<mcp_server, written, nread, initOk, closes, peer>>

\* handle_client on one connection
handle_client(c) ==
  \/ Accept(c)
  \/ ReadLine(c)
  \/ HandleRequest(c)
  \/ WriteResponse(c)
  \/ Continue(c)

\* the peer closes or resets the connection while the loop holds a frame.
\* While the loop waits in readline, the closing shows as the end of input or
\* the error that readline returns, which ReadFrame covers.
Reset(c) ==
  /\ pc[c] \in {"handle", "blocked", "write"}
  /\ peer[c] = "open"
  /\ peer' = [peer EXCEPT ![c] = "gone"]
  /\ UNCHANGED <<pc, mcp_server, request, env_, response, sent, ran, before, written,
                 nread, inflight, initOk, closes>>

\* one connection, whose peer is not the terminal client
Next ==
  \/ Accept("A") /\ UNCHANGED terminal
  \/ ReadLine("A") /\ UNCHANGED terminal
  \/ HandleRequest("A") /\ UNCHANGED terminal
  \/ WriteResponse("A") /\ UNCHANGED terminal
  \/ Continue("A") /\ UNCHANGED terminal
  \/ Reset("A") /\ UNCHANGED terminal

Spec == Init /\ [][Next]_vars

(***************************************************************************)
(* main: asyncio.start_server runs handle_client for every connection as a *)
(* coroutine on the one thread of the event loop.  A coroutine gives the   *)
(* thread up only at an await that suspends (readline, drain); from the    *)
(* return of readline to the write, the call of handle_request included,   *)
(* nothing else runs.  subprocess.run is an ordinary blocking call.        *)
(***************************************************************************)
\* the frames of a short session: handshake, a listing, two commands
SessionFrames ==
  { [kind |-> "object",
     obj |-> Obj("initialize", "0",
                 JDict([k \in {"protocolVersion", "workspaceFolders"} |->
                          IF k = "protocolVersion" THEN MCP_VERSION
                          ELSE <<[uri |-> <<"file://", "/", "ws1">>, name |-> <<"W">>]>>]))],
    [kind |-> "object", obj |-> Obj("initialized", Absent, JDict(EmptyDict))],
    [kind |-> "object", obj |-> Obj("tools/list", "1", JAbsent)],
    [kind |-> "object",
     obj |-> Obj("tools/call", "1",
                 JDict([k \in {"name", "arguments"} |->
                          IF k = "name" THEN "run_command" ELSE Args({"command"})]))],
    [kind |-> "object", obj |-> Obj("terminal/execute", "1", JDict([k \in {"command"} |-> <<"ls">>]))],
    [kind |-> "eof", obj |-> EmptyDict] }

\* handle_request for the held frame gets as far as subprocess.run
NeedsProcess(c) ==
  \E env \in EnvFor(request[c]) :
    "subprocess.run" \in handle_request(mcp_server[c], request[c], env).ran

\* the thread of the event loop is not inside another connection's coroutine
OnLoop(c) == \A d \in Conns \ {c} : pc[d] \notin {"handle", "write", "blocked"}

ReadLineSession(c) ==
  /\ AtReadLine(c)
  /\ \E frame \in SessionFrames : MayRead(c, frame) /\ ReadFrame(c, frame)

NextMulti ==
  \E c \in Conns :
    \/ OnLoop(c) /\ Accept(c) /\ UNCHANGED terminal
    \/ OnLoop(c) /\ ReadLineSession(c) /\ UNCHANGED terminal
    \/ OnLoop(c) /\ HandleRequest(c) /\ UNCHANGED terminal
    \/ OnLoop(c) /\ WriteResponse(c) /\ UNCHANGED terminal
    \/ OnLoop(c) /\ Continue(c) /\ UNCHANGED terminal

SpecMulti == Init /\ [][NextMulti]_vars

(***************************************************************************)
(* src/mcp_terminal.py: the terminal client on connection "A".  It does    *)
(* the handshake once (initialize_mcp_server) and then sends one           *)
(* terminal/execute for every line the user types (run_mcp_client),        *)
(* reading one line after each.  Its StreamReader has the default limit of *)
(* 64 KiB: readline raises ValueError on a longer line and keeps what      *)
(* follows the part it threw away for the next call.                       *)
(***************************************************************************)
\* commands the user types before exit
MaxCommands == 2

\* initialize_request; clientInfo and capabilities are left out, the server
\* does not read them
initialize_request ==
  [kind |-> "object",
   obj |-> Obj("initialize", "0",
               JDict([k \in {"protocolVersion", "workspaceFolders"} |->
                        IF k = "protocolVersion" THEN "2024-11-05"
                        ELSE <<[uri |-> <<"file://">> \o Cwd, name |-> <<"MCPWorkspace">>]>>]))]

initialized_notification ==
  [kind |-> "object", obj |-> Obj("initialized", Absent, JDict(EmptyDict))]

\* the request of run_mcp_client
terminal_request(message) ==
  [kind |-> "object", obj |-> Obj("terminal/execute", "1", JDict([k \in {"command"} |-> message]))]

\* what the user types that is neither exit nor switch
UserInputs == {<<>>, <<"ls">>}

\* writer.write(json.dumps(frame).encode() + b'\n'); await writer.drain()
Send(frame) ==
  [terminal EXCEPT !.toServer = Append(@, frame), !.nsent = @ + 1]

\* asyncio.open_connection
Connect ==
  /\ terminal.pc = "start"
  /\ terminal' = [terminal EXCEPT !.pc = "initialize"]
  /\ UNCHANGED <<pc, mcp_server, request, env_, response, sent, ran, before, written,
                 nread, inflight, initOk, closes, peer>>

\* open_connection raises (no server listens): the except clause of
\* initialize_mcp_server leaves mcp_initialized False and main goes on
ConnectFails ==
  /\ terminal.pc = "start"
  /\ terminal' = [terminal EXCEPT !.pc = "input", !.mcp_initialized = FALSE]
  /\ UNCHANGED <<pc, mcp_server, request, env_, response, sent, ran, before, written,
                 nread, inflight, initOk, closes, peer>>

\* 1. Send initialize request
SendInitialize ==
  /\ terminal.pc = "initialize"
  /\ terminal' = [Send(initialize_request) EXCEPT !.pc = "response"]
  /\ UNCHANGED <<pc, mcp_server, request, env_, response, sent, ran, before, written,
                 nread, inflight, initOk, closes, peer>>

\* 2. Receive initialize response: the line is a few kilobytes, below the limit
ReceiveInitialize ==
  /\ terminal.pc = "response"
  /\ terminal.fromServer # <<>>
  /\ terminal' = [terminal EXCEPT !.pc = "initialized", !.fromServer = Tail(@)]
  /\ UNCHANGED <<pc, mcp_server, request, env_, response, sent, ran, before, written,
                 nread, inflight, initOk, closes, peer>>

\* 3. Send initialized notification
SendInitialized ==
  /\ terminal.pc = "initialized"
  /\ terminal' = [Send(initialized_notification) EXCEPT !.pc = "input", !.mcp_initialized = TRUE]
  /\ UNCHANGED <<pc, mcp_server, request, env_, response, sent, ran, before, written,
                 nread, inflight, initOk, closes, peer>>

\* main: user_input is exit
Exit ==
  /\ terminal.pc = "input"
  /\ terminal' = [terminal EXCEPT !.pc = "exited"]
  /\ UNCHANGED <<pc, mcp_server, request, env_, response, sent, ran, before, written,
                 nread, inflight, initOk, closes, peer>>

\* main: user_input is switch
Switch ==
  /\ terminal.pc = "input"
  /\ terminal' = [terminal EXCEPT !.current_model = IF @ = "cloud" THEN "local" ELSE "cloud"]
  /\ UNCHANGED <<pc, mcp_server, request, env_, response, sent, ran, before, written,
                 nread, inflight, initOk, closes, peer>>

\* main: any other input goes to run_mcp_client, which sends it as a command
\* and then waits for a line
run_mcp_client ==
  /\ terminal.pc = "input"
  /\ terminal.commands < MaxCommands
  /\ \E message \in UserInputs :
       terminal' =
         IF ~terminal.mcp_initialized
         THEN [terminal EXCEPT !.commands = @ + 1]
         ELSE [Send(terminal_request(message)) EXCEPT
                 !.pc = "readline", !.commands = @ + 1,
                 !.awaiting = terminal.nsent + 1, !.lastLine = 0]
  /\ UNCHANGED <<pc, mcp_server, request, env_, response, sent, ran, before, written,
                 nread, inflight, initOk, closes, peer>>

\* response = await mcp_reader.readline() in run_mcp_client.  A line within the
\* limit is returned whole.  On a longer one readline raises ValueError after
\* dropping what it has buffered; the except clause prints the error and the
\* rest of that line is what the next readline meets: it is returned as a
\* line, or is itself over the limit and dropped with another ValueError.
ReceiveResponse ==
  /\ terminal.pc = "readline"
  /\ terminal.fromServer # <<>>
  /\ LET line == Head(terminal.fromServer)
     IN  \/ /\ ~terminal.partial /\ ~line.big
            /\ terminal' = [terminal EXCEPT !.pc = "input", !.fromServer = Tail(@),
                                             !.lastLine = line.origin]
         \/ /\ ~terminal.partial /\ line.big
            /\ terminal' = [terminal EXCEPT !.pc = "input", !.partial = TRUE]
         \/ /\ terminal.partial
            /\ \E returned \in BOOLEAN :
                 terminal' = [terminal EXCEPT !.pc = "input", !.fromServer = Tail(@),
                                              !.partial = FALSE,
                                              !.lastLine = IF returned THEN line.origin ELSE 0]
  /\ UNCHANGED <<pc, mcp_server, request, env_, response, sent, ran, before, written,
                 nread, inflight, initOk, closes, peer>>

\* the server reads the line the client sent first, or the end of input
\* once the client has closed its writer
ReadLineTerminal(c) ==
  /\ AtReadLine(c)
  /\ IF terminal.toServer # <<>>
     THEN /\ ReadFrame(c, Head(terminal.toServer))
          /\ terminal' = [terminal EXCEPT !.toServer = Tail(@)]
     ELSE /\ terminal.pc = "exited"
          /\ ReadFrame(c, [kind |-> "eof", obj |-> EmptyDict])
          /\ UNCHANGED terminal

\* the line the server writes reaches the client's reader.  The result of a
\* command that ran carries its stdout and stderr and can be of any length.
WriteResponseTerminal(c) ==
  /\ WriteResponse(c)
  /\ IF response[c] = NoResponse
     THEN UNCHANGED terminal
     ELSE \E big \in (IF "subprocess.run" \in ran[c] /\ env_[c] \in {"ok", "fail"}
                       THEN BOOLEAN ELSE {FALSE}) :
            terminal' = [terminal EXCEPT !.fromServer = Append(@, [origin |-> nread[c], big |-> big])]

\* the client and the server side of its connection; the server accepts the
\* connection once open_connection has been called and has not failed
NextTerminal ==
  \/ Connect
  \/ ConnectFails
  \/ SendInitialize
  \/ ReceiveInitialize
  \/ SendInitialized
  \/ Exit
  \/ Switch
  \/ run_mcp_client
  \/ ReceiveResponse
  \/ terminal.pc \notin {"start", "input"} /\ Accept("A") /\ UNCHANGED terminal
  \/ ReadLineTerminal("A")
  \/ HandleRequest("A") /\ UNCHANGED terminal
  \/ WriteResponseTerminal("A")
  \/ Continue("A") /\ UNCHANGED terminal

SpecTerminal == Init /\ [][NextTerminal]_vars

(***************************************************************************)
(* Properties                                                              *)
(***************************************************************************)
\* handle_request has returned for the frame the loop holds
Handled(c) == pc[c] \in {"write", "drained"}

IsObject(c) == request[c].kind = "object"

MethodOf(c) == Get(request[c].obj, "method", "")

\* the id of the held frame as JSON text; an absent id reads as null
IdOf(c) == Get(request[c].obj, "id", "null")

ParamsOf_(c) == Get(request[c].obj, "params", JDict(EmptyDict))

HasId(c) == IsObject(c) /\ IdOf(c) # "null"

ErrorWith(r, code) == r.kind = "error" /\ r.code = code

\* C1: while the session is not initialized, a request with a non-null id
\* whose method is neither initialize nor initialized is answered with error
\* -32002 under its own id, no handler runs and the server object is unchanged.
C1_NotReadyRejected ==
  \A c \in Conns :
    (Handled(c) /\ HasId(c) /\ ~before[c].initialized
       /\ MethodOf(c) \notin {"initialize", "initialized"})
    => /\ ErrorWith(response[c], -32002)
       /\ response[c].id = IdOf(c)
       /\ ran[c] = {}
       /\ mcp_server[c] = before[c]
       /\ ((pc[c] = "drained" /\ peer[c] = "open") => ErrorWith(sent[c], -32002))

C1_Witness ==
  /\ pc["A"] = "drained" /\ HasId("A") /\ ~before["A"].initialized
  /\ MethodOf("A") = "tools/call"
  /\ Get(ParamsOf_("A").items, "name", None) = "run_command"
  /\ ErrorWith(sent["A"], -32002)

\* C2: a session is initialized only if an initialize request succeeded
\* earlier on the same session.
C2_ReadyOnlyAfterInitialize ==
  \A c \in Conns : mcp_server[c].initialized => initOk[c]

\* the protocolVersion of an initialize frame differs from MCP_VERSION
VersionMismatch(c) ==
  /\ IsObject(c) /\ MethodOf(c) = "initialize"
  /\ HasGet(ParamsOf_(c))
  /\ Get(ParamsOf_(c).items, "protocolVersion", None) # MCP_VERSION

\* C3: an initialize request with a non-null id and an unsupported (or absent)
\* protocolVersion is answered with an error of code -32602.
C3_VersionMismatchIsInvalidParams ==
  \A c \in Conns :
    (Handled(c) /\ HasId(c) /\ VersionMismatch(c)) => ErrorWith(response[c], -32602)

\* C4: an initialize that fails on the protocol version leaves the initialized
\* flag and the workspace root as they were, whatever workspaceFolders it sent.
C4_FailedInitializeChangesNothing ==
  \A c \in Conns :
    (Handled(c) /\ VersionMismatch(c))
    => /\ mcp_server[c].initialized = before[c].initialized
       /\ mcp_server[c].workspace_root = before[c].workspace_root

C4_Witness ==
  /\ Handled("A") /\ VersionMismatch("A")
  /\ "workspaceFolders" \in DOMAIN ParamsOf_("A").items
  /\ "handle_initialize" \in ran["A"]
  /\ mcp_server["A"].workspace_root = Cwd

\* C5: a frame whose id is absent or null never has a line written for it,
\* whatever its method and whatever the state of the session.
C5_NotificationWritesNothing ==
  \A c \in Conns :
    (IsObject(c) /\ ~HasId(c))
    => /\ sent[c] = NoResponse
       /\ \A i \in 1..Len(written[c]) : written[c][i] # nread[c]

C5_Witness ==
  /\ pc["A"] = "drained" /\ IsObject("A") /\ ~HasId("A")
  /\ before["A"].initialized
  /\ MethodOf("A") = "no/such/method"
  /\ sent["A"] = NoResponse

\* C6: a line written to the connection carries the id of the frame the loop
\* holds, the one that triggered it, for results and errors alike.
C6_ResponseEchoesRequestId ==
  \A c \in Conns :
    sent[c] # NoResponse
    => /\ IsObject(c) /\ "id" \in DOMAIN request[c].obj
       /\ sent[c].id = request[c].obj["id"]
       /\ written[c][Len(written[c])] = nread[c]

C6_Witness ==
  /\ sent["A"].kind = "error" /\ sent["A"].id = "1"
  /\ Len(written["A"]) = 2

\* C7: at most one frame is in flight per session, no frame is read before the
\* iteration for the previous one has finished, and the answers are written in
\* the order of the frames that triggered them.
C7_StrictlySequential ==
  \A c \in Conns :
    /\ inflight[c] <= 1
    /\ (pc[c] = "readline" => inflight[c] = 0)
    /\ (pc[c] \in {"handle", "write", "drained", "blocked"} => inflight[c] = 1)
    /\ \A i, j \in 1..Len(written[c]) : i < j => written[c][i] < written[c][j]
    /\ \A i \in 1..Len(written[c]) : written[c][i] <= nread[c]

C7_Witness ==
  /\ written["A"] = <<1, 3>> /\ pc["A"] = "readline"

\* C8: a frame that is not valid JSON ends either with an error response of
\* code -32700 written to the connection or with the connection closed.
C8_ParseErrorReportedOrClosed ==
  \A c \in Conns :
    (request[c].kind = "badjson" /\ pc[c] \notin {"handle", "write"})
    => (ErrorWith(sent[c], -32700) \/ pc[c] = "closed")

\* the held frame is a tools/call that names a registered tool and leaves out an
\* argument that its inputSchema requires
MissingRequiredArgument(c) ==
  /\ IsObject(c) /\ MethodOf(c) = "tools/call" /\ HasGet(ParamsOf_(c))
  /\ Get(ParamsOf_(c).items, "name", None) \in ToolNames
  /\ LET arguments == Get(ParamsOf_(c).items, "arguments", JDict(EmptyDict))
     IN  /\ HasGet(arguments)
         /\ ToolDescriptor(ParamsOf_(c).items["name"]).required \ DOMAIN arguments.items # {}

ToolBodies == {"_tool_read_file", "_tool_write_file", "_tool_list_files", "_tool_create_directory",
               "_tool_delete_path", "_tool_run_command", "_tool_search_files", "_tool_file_info",
               "_tool_calculator", "_tool_datetime"}

\* C9: in an initialized session a tools/call for a registered tool that omits a
\* required argument is answered with error -32602 and no tool body runs.
C9_MissingArgumentIsInvalidParams ==
  \A c \in Conns :
    (Handled(c) /\ HasId(c) /\ before[c].initialized /\ MissingRequiredArgument(c))
    => /\ ErrorWith(response[c], -32602)
       /\ ran[c] \cap ToolBodies = {}

\* the external calls the tool bodies make
ExternalCalls == {"open", "os.listdir", "os.makedirs", "os.remove", "os.walk", "os.stat",
                  "subprocess.run", "eval"}

\* a content text that reports a failure
DescribesFailure(text) ==
  \/ text[1] \in {"Error leyendo archivo ", "Error escribiendo archivo ", "La ruta no existe: ",
                  "Error listando directorio ", "Error creando directorio ", "Error eliminando ",
                  "El comando tardo demasiado en ejecutarse: ", "Error ejecutando comando: ",
                  "No se encontraron archivos con el patron '",
                  "Error obteniendo informacion del archivo: ", "Error de calculo: "}
  \/ text[Len(text)] = "returncode: 1"

\* C10: in an initialized session, when the external call of a tool body fails,
\* the tools/call request is answered with a result whose content reports the
\* failure, never with an error object.
C10_ToolFailureIsResult ==
  \A c \in Conns :
    (Handled(c) /\ HasId(c) /\ before[c].initialized /\ MethodOf(c) = "tools/call"
       /\ ran[c] \cap ExternalCalls # {} /\ env_[c] # "ok")
    => /\ response[c].kind = "result"
       /\ response[c].body.tag = "content"
       /\ DescribesFailure(response[c].body.text)

C10_Witness ==
  /\ pc["A"] = "drained" /\ HasId("A") /\ before["A"].initialized
  /\ "_tool_run_command" \in ran["A"] /\ env_["A"] = "timeout"
  /\ sent["A"].kind = "result"

\* the held frame is a tools/call whose params carry the given name
CallsTool(c, names) ==
  /\ IsObject(c) /\ MethodOf(c) = "tools/call" /\ HasGet(ParamsOf_(c))
  /\ "name" \in DOMAIN ParamsOf_(c).items
  /\ ParamsOf_(c).items["name"] \in names

InText(text, token) == \E i \in 1..Len(text) : text[i] = token

\* C11: in an initialized session a tools/call whose name is not in the tool
\* registry is answered with a result whose content says that this name was not
\* found, and the session stays initialized.
C11_UnknownToolIsResult ==
  \A c \in Conns :
    (Handled(c) /\ HasId(c) /\ before[c].initialized /\ CallsTool(c, {"no_such_tool"}))
    => /\ response[c].kind = "result"
       /\ response[c].body.tag = "content"
       /\ response[c].body.text[1] = "Herramienta no encontrada: "
       /\ InText(response[c].body.text, "no_such_tool")
       /\ ran[c] \cap ToolBodies = {}
       /\ mcp_server[c].initialized

C11_Witness ==
  /\ pc["A"] = "drained" /\ before["A"].initialized /\ CallsTool("A", {"no_such_tool"})
  /\ sent["A"].kind = "result" /\ sent["A"].id = "0"

\* C12: no command started by run_command or terminal/execute leaves the
\* session stuck in the call that runs it.
C12_NoCommandHangsSession ==
  \A c \in Conns : pc[c] # "blocked"

\* the connection is inside a handle_request that runs an external process
WaitingOnProcess(c) ==
  \/ pc[c] = "blocked"
  \/ pc[c] = "handle" /\ NeedsProcess(c)

\* C13: while one session waits on the external process of run_command or
\* terminal/execute, another connected session can have its next frame read.
C13_OtherSessionsNotStalled ==
  \A a \in Conns : \A b \in Conns \ {a} :
    (WaitingOnProcess(a) /\ pc[b] = "readline")
    => ENABLED (OnLoop(b) /\ ReadLineSession(b))

\* C14: the MCPServer object of a connection (initialized flag, workspace root)
\* changes only in a step in which that connection's own handle_request returns.
C14_SessionsIsolated ==
  [][\A c \in Conns :
       mcp_server'[c] # mcp_server[c] => (pc[c] = "handle" /\ pc'[c] # "handle")]_vars

C14_Witness ==
  /\ mcp_server["A"].initialized /\ mcp_server["A"].workspace_root # Cwd
  /\ pc["B"] = "drained" /\ ErrorWith(sent["B"], -32002)
  /\ ~mcp_server["B"].initialized /\ mcp_server["B"].workspace_root = Cwd

\* C15: once the initialized flag of a session is set, no step clears it.
C15_ReadyIsMonotonic ==
  [][\A c \in Conns : mcp_server[c].initialized => mcp_server'[c].initialized]_vars

C15_Witness ==
  /\ Handled("A") /\ before["A"].initialized /\ MethodOf("A") = "initialize"
  /\ "handle_initialize" \in ran["A"]
  /\ mcp_server["A"].initialized

\* C16: a frame that is valid JSON but not an object does not end the session.
C16_InternalErrorKeepsSession ==
  \A c \in Conns : request[c].kind = "nonobject" => pc[c] # "closed"

ProtocolErrors == {-32002, -32601, -32602}

\* C17: when a protocol error (-32002, -32601, -32602) has been written, the
\* connection is still open, the loop is about to go back to readline, and the
\* server object is what it was before the offending request.
C17_ProtocolErrorKeepsSession ==
  \A c \in Conns :
    (sent[c].kind = "error" /\ sent[c].code \in ProtocolErrors)
    => /\ pc[c] = "drained"
       /\ closes[c] = 0
       /\ ENABLED Continue(c)
       /\ mcp_server[c] = before[c]

C17_Witness ==
  /\ pc["A"] = "drained" /\ ErrorWith(sent["A"], -32601)
  /\ before["A"].initialized /\ mcp_server["A"].initialized
  /\ written["A"] = <<2, 3>>

\* the method names handle_request has a branch for
RegisteredMethods == {"initialize", "initialized", "tools/list", "tools/call", "prompts/list",
                      "prompts/get", "terminal/execute"}

\* C18: in an initialized session a request whose method has no branch in
\* handle_request is answered with error -32601 and a message that contains the
\* method string of the request.
C18_UnknownMethodNamed ==
  \A c \in Conns :
    (Handled(c) /\ HasId(c) /\ before[c].initialized /\ MethodOf(c) \notin RegisteredMethods)
    => /\ ErrorWith(response[c], -32601)
       /\ response[c].id = IdOf(c)
       /\ InText(response[c].body.text, MethodOf(c))
       /\ ran[c] = {}

C18_Witness ==
  /\ pc["A"] = "drained" /\ before["A"].initialized /\ MethodOf("A") = "no/such/method"
  /\ ErrorWith(sent["A"], -32601)
  /\ InText(sent["A"].body.text, "no/such/method")

\* C19: a request that is a JSON object without a method is answered with
\* error -32600, whatever the state of the session.
C19_MissingMethodIsInvalidRequest ==
  \A c \in Conns :
    (Handled(c) /\ HasId(c) /\ "method" \notin DOMAIN request[c].obj)
    => ErrorWith(response[c], -32600)

\* the names of the tools in the order _setup_tools writes them
RegistrationOrder ==
  <<"read_file", "write_file", "list_files", "create_directory", "delete_path", "run_command",
    "search_files", "file_info", "calculator", "terminal_execute", "datetime">>

\* C20: in an initialized session every tools/list request is answered with the
\* tool descriptors of the constructor, in registration order, whatever was
\* handled before it.
C20_ToolsListIsFixed ==
  \A c \in Conns :
    (Handled(c) /\ HasId(c) /\ before[c].initialized /\ MethodOf(c) = "tools/list")
    => /\ response[c].kind = "result"
       /\ response[c].body.tag = "tools"
       /\ response[c].body.text = RegistrationOrder

C20_Witness ==
  /\ pc["A"] = "drained" /\ initOk["A"] /\ before["A"].initialized
  /\ MethodOf("A") = "tools/list" /\ nread["A"] = 3
  /\ sent["A"].kind = "result" /\ sent["A"].body.text = RegistrationOrder

\* C21: when the peer has gone while handle_request holds a frame, the handler
\* is given up: it does not run its external call to completion for the dead
\* connection and does not stay inside it.
C21_ClosedConnectionAbortsWork ==
  [][\A c \in Conns :
       (peer[c] = "gone" /\ pc[c] = "handle" /\ pc'[c] # "handle")
       => (ran'[c] \cap ExternalCalls = {} /\ pc'[c] # "blocked")]_vars

EofFrame == [kind |-> "eof", obj |-> EmptyDict]

\* handle_request lets an exception out for the held frame
Escapes(c) ==
  \E env \in EnvFor(request[c]) : handle_request(mcp_server[c], request[c], env).exc # ""

\* C22: the writer of a connection is closed at most once, and exactly once when
\* its loop has ended; reading the end of input, or an exception that leaves
\* handle_request, ends the loop whether the session is initialized or not; and
\* once the loop has ended nothing more is read or handled on the connection.
C22_ClosedOnceAndFinal ==
  /\ [](\A c \in Conns :
         /\ closes[c] <= 1
         /\ (pc[c] = "closed" <=> closes[c] = 1)
         /\ (pc[c] = "closed" => ~ENABLED handle_client(c)))
  /\ [][\A c \in Conns :
         /\ ReadFrame(c, EofFrame) => (pc'[c] = "closed" /\ closes'[c] = closes[c] + 1)
         /\ (pc[c] = "handle" /\ Escapes(c) /\ pc'[c] # "handle")
            => (pc'[c] = "closed" /\ closes'[c] = closes[c] + 1)
         /\ (pc[c] = "closed" => (nread'[c] = nread[c] /\ written'[c] = written[c]))]_vars

C22_Witness ==
  /\ pc["A"] = "closed" /\ closes["A"] = 1
  /\ mcp_server["A"].initialized /\ initOk["A"]
  /\ request["A"] = NoFrame /\ nread["A"] = 2 /\ written["A"] = <<1>>

\* the held frame is a prompts/get for a prompt of the registry whose
\* arguments are a mapping
GetsPrompt(c) ==
  /\ IsObject(c) /\ MethodOf(c) = "prompts/get" /\ HasGet(ParamsOf_(c))
  /\ Get(ParamsOf_(c).items, "name", None) \in PromptNames
  /\ HasGet(Get(ParamsOf_(c).items, "arguments", JDict(EmptyDict)))

PromptArguments(c) == Get(ParamsOf_(c).items, "arguments", JDict(EmptyDict)).items

\* the descriptions of the three rendered prompts
RenderedDescriptions == {"Revision de codigo con enfoque en calidad",
                         "Explica el funcionamiento de un codigo",
                         "Genera tests para un codigo dado"}

\* C23: in an initialized session a prompts/get for a prompt of the registry
\* that leaves out an argument the descriptor marks as required is not answered
\* with the rendered message list of that prompt.
C23_MissingPromptArgumentFails ==
  \A c \in Conns :
    (Handled(c) /\ HasId(c) /\ before[c].initialized /\ GetsPrompt(c)
       /\ PromptDescriptor(ParamsOf_(c).items["name"]).required \ DOMAIN PromptArguments(c) # {})
    => ~(response[c].kind = "result" /\ response[c].body.tag \in RenderedDescriptions)

\* value occurs in text as a run of consecutive tokens
Contains(text, value) ==
  \E i \in 1..(Len(text) - Len(value) + 1) : SubSeq(text, i, i + Len(value) - 1) = value

SaysToolNotFound(r) ==
  r.kind = "result" /\ r.body.tag = "content" /\ r.body.text[1] = "Herramienta no encontrada: "

\* C25: in an initialized session a tools/call that names a tool of the registry
\* runs the body of a tool and is never answered with the "tool not found"
\* result.
C25_ListedToolsAreDispatched ==
  \A c \in Conns :
    (Handled(c) /\ HasId(c) /\ before[c].initialized /\ CallsTool(c, ToolNames))
    => /\ ~SaysToolNotFound(response[c])
       /\ ran[c] \cap ToolBodies # {}

\* the held frame is an initialize whose params name the supported version
SupportedInitialize(c) ==
  /\ IsObject(c) /\ MethodOf(c) = "initialize" /\ HasGet(ParamsOf_(c))
  /\ Get(ParamsOf_(c).items, "protocolVersion", None) = MCP_VERSION

\* C26: an initialize frame reaches handle_initialize in every state of the
\* session and is never answered with -32002; when the session is already
\* initialized and the version is the supported one, the answer is the
\* initialize result again, the workspace root is the first workspace folder of
\* the request if it has one and is unchanged otherwise, and the session stays
\* initialized.
C26_InitializeAlwaysAccepted ==
  \A c \in Conns :
    (Handled(c) /\ IsObject(c) /\ MethodOf(c) = "initialize")
    => /\ ~ErrorWith(response[c], -32002)
       /\ "handle_initialize" \in ran[c]
       /\ (before[c].initialized /\ SupportedInitialize(c))
          => /\ mcp_server[c].initialized
             /\ HasId(c) => /\ response[c].kind = "result"
                            /\ response[c].body.tag = "initialize"
                            /\ response[c].id = IdOf(c)
             /\ LET workspace_dirs == Get(ParamsOf_(c).items, "workspaceFolders", <<>>)
                IN  mcp_server[c].workspace_root =
                      IF workspace_dirs # <<>> THEN <<"/", "ws1">> ELSE before[c].workspace_root

C26_Witness ==
  /\ pc["A"] = "drained" /\ before["A"].initialized /\ SupportedInitialize("A")
  /\ before["A"].workspace_root = Cwd
  /\ mcp_server["A"].workspace_root = <<"/", "ws1">>
  /\ mcp_server["A"].initialized
  /\ sent["A"].kind = "result" /\ sent["A"].body.tag = "initialize"

\* the held frame with the id 1 put in place of its absent or null id
WithId(c) ==
  [kind |-> "object",
   obj |-> [k \in DOMAIN request[c].obj \cup {"id"} |-> IF k = "id" THEN "1" ELSE request[c].obj[k]]]

\* C27: in an initialized session a tools/call or terminal/execute frame whose
\* id is absent or null runs the same handlers and external calls, leaves the
\* same server object and hangs in the same cases as the same frame with an
\* id; the frame with an id gets a response and the one without gets none.
C27_NotificationStillRuns ==
  \A c \in Conns :
    (pc[c] \in {"write", "drained", "blocked"} /\ IsObject(c) /\ ~HasId(c) /\ before[c].initialized
       /\ MethodOf(c) \in {"tools/call", "terminal/execute"})
    => LET r == handle_request(before[c], WithId(c), env_[c])
       IN  /\ ran[c] = r.ran
           /\ mcp_server[c] = r.server
           /\ r.hangs = (pc[c] = "blocked")
           /\ response[c] = NoResponse /\ sent[c] = NoResponse
           /\ ~r.hangs => r.response # NoResponse

C27_Witness ==
  /\ pc["A"] = "drained" /\ IsObject("A") /\ "id" \notin DOMAIN request["A"].obj
  /\ before["A"].initialized /\ MethodOf("A") = "terminal/execute"
  /\ ran["A"] = {"handle_terminal_execute", "subprocess.run"}
  /\ env_["A"] = "ok"
  /\ sent["A"] = NoResponse /\ written["A"] = <<>>

BlankFrame == [kind |-> "blank", obj |-> EmptyDict]

\* C28: reading a line that is empty or only whitespace leaves the loop at
\* readline with the frame counted, without a call of handle_request, without a
\* line written and with the server object and the connection as they were.
C28_BlankFrameSkipped ==
  [][\A c \in Conns :
       ReadFrame(c, BlankFrame)
       => /\ pc[c] = "readline" /\ pc'[c] = "readline"
          /\ nread'[c] = nread[c] + 1
          /\ inflight'[c] = 0
          /\ UNCHANGED <<mcp_server, response, sent, ran, written, closes, initOk>>]_vars

C28_Witness ==
  /\ pc["A"] = "readline" /\ request["A"] = BlankFrame
  /\ nread["A"] = 2 /\ written["A"] = <<>>
  /\ mcp_server["A"].initialized /\ closes["A"] = 0
  /\ ENABLED ReadFrame("A", [kind |-> "object", obj |-> Obj("tools/list", "1", JAbsent)])

\* C29: when a terminal/execute frame of the terminal client is handled the
\* session is initialized and the frame is not answered with -32002, and a
\* line that the client's readline returns after it has sent a terminal/execute
\* is the response to that frame.
C29_TerminalLockstep ==
  /\ (pc["A"] \in {"handle", "write", "drained", "blocked"} /\ MethodOf("A") = "terminal/execute")
     => (before["A"].initialized /\ ~ErrorWith(response["A"], -32002))
  /\ terminal.lastLine # 0 => terminal.lastLine = terminal.awaiting

====
